---- MODULE Spec2Model ----
(***************************************************************************)
(* SafeAlter: migration cross-validator (src/safealter.py, src/main.py).   *)
(*                                                                         *)
(* Text encoding.  A text is a sequence of tokens; its characters are the  *)
(* concatenation of the tokens' characters.  A token is a record           *)
(*     [us, base, cs]                                                      *)
(* which is either a word, a maximal run of \w characters, written         *)
(*     ("_" if us) + (base in the letter case cs)                          *)
(* with cs = "l" (lower case), "T" (first letter upper case) or "U" (all   *)
(* upper case), or, with cs = "p", the non-word text base itself           *)
(* (blank, newline, quote, dot, ...).  The bases of words are lower case,  *)
(* have at least two letters and do not begin with "_", so two words are   *)
(* the same string exactly when they are the same record.  Two words are   *)
(* never adjacent in a text (they would be one word).                      *)
(***************************************************************************)
EXTENDS Naturals, Sequences, FiniteSets

VARIABLES
  api,              \* the entry point the run calls
  pc,               \* where the run is
  sql,              \* parse_migrations: the migration text
  changes,          \* List[SchemaChange]
  code_files,       \* Dict[str, str] in insertion order: file name, content
  violations,       \* List[Violation]
  code_references,  \* List[CodeReference]
  results,          \* List[CrossValidationResult]
  config,           \* Config
  filtered,         \* filter_violations: its result
  fs,               \* the files on disk a walk meets, in walk order
  idx,              \* the walk's position in fs
  args,             \* main: the parsed command line
  sqls,             \* main: the migration files collected, as code_files
  output,           \* main: what the run printed
  exit_code,        \* main: <<>> while running, then <<the exit status>>
  added,            \* a line added to the corpus: the file, the place, the line
  violations_after  \* find_violations on the corpus with that line added

vars == <<api, pc, sql, changes, code_files, violations, code_references, results,
          config, filtered, fs, idx, args, sqls, output, exit_code,
          added, violations_after>>

\* the variables of a command-line run
cli == <<args, sqls, output, exit_code>>

\* the variables of a run repeated on a grown corpus
mono == <<added, violations_after>>

\* ------------------------------------------------------------------ bounds
MaxChanges == 2
MaxLines == 2
MaxRefs == 2

\* ------------------------------------------------------------------ tokens
W(b) == [us |-> FALSE, base |-> b, cs |-> "l"]
T(b) == [us |-> FALSE, base |-> b, cs |-> "T"]
U(b) == [us |-> FALSE, base |-> b, cs |-> "U"]
UW(b) == [us |-> TRUE, base |-> b, cs |-> "l"]
P(s) == [us |-> FALSE, base |-> s, cs |-> "p"]
SP == P(" ")
NL == P("\n")
SQ == P("'")
EMPTY == W("")

IsWord(t) == t.cs # "p" /\ t.base # ""
IsSpace(t) == t = SP

\* str.lower() of a word
lower(w) == IF w.cs = "p" THEN w ELSE [w EXCEPT !.cs = "l"]

\* str.startswith('_')
startswith_us(w) == w.cs # "p" /\ w.us

\* Sequences of length at most n over S
SeqUpTo(S, n) == UNION {[1..k -> S] : k \in 0..n}

\* str.splitlines(): the lines between newlines; a final newline ends the
\* last line and opens no further one.
RECURSIVE splitlines_from(_, _, _)
splitlines_from(text, i, cur) ==
  IF i > Len(text) THEN (IF cur = <<>> /\ (i = 1 \/ text[i - 1] = NL) THEN <<>> ELSE <<cur>>)
  ELSE IF text[i] = NL THEN <<cur>> \o splitlines_from(text, i + 1, <<>>)
  ELSE splitlines_from(text, i + 1, Append(cur, text[i]))

splitlines(text) == splitlines_from(text, 1, <<>>)

\* str.strip(): leading and trailing blanks removed
RECURSIVE lstrip(_)
lstrip(line) ==
  IF line # <<>> /\ IsSpace(Head(line)) THEN lstrip(Tail(line)) ELSE line

RECURSIVE rstrip(_)
rstrip(line) ==
  IF line # <<>> /\ IsSpace(line[Len(line)]) THEN rstrip(SubSeq(line, 1, Len(line) - 1))
  ELSE line

strip(line) == rstrip(lstrip(line))

\* ------------------------------------------------------------- data model
SchemaChange(kind, table, column, file, line, severity) ==
  [kind |-> kind, table |-> table, column |-> column, file |-> file,
   line |-> line, severity |-> severity]

Violation(change, fname, lineno, line) ==
  [kind |-> change.kind, table |-> change.table, column |-> change.column,
   migration_file |-> change.file, migration_line |-> change.line,
   code_file |-> fname, code_line |-> lineno, snippet |-> strip(line),
   severity |-> change.severity]

CodeReference(file_path, line_number, line_content, ref_type, name) ==
  [file_path |-> file_path, line_number |-> line_number,
   line_content |-> line_content, ref_type |-> ref_type, name |-> name]

Path(stem, ext) == [stem |-> stem, ext |-> ext]

\* ------------------------------------------------------- find_violations
\* target = change.column if change.column else change.table
target_of(change) == IF change.column # EMPTY THEN change.column ELSE change.table

\* re.compile(r'\b' + re.escape(target) + r'\b', re.I).search(line), for a
\* target that is one word: some whole word of the line is the target up
\* to letter case.
pat_search(target, line) ==
  \E i \in 1..Len(line) : IsWord(line[i]) /\ lower(line[i]) = lower(target)

\* for lineno, line in enumerate(content.splitlines(), 1): ...
RECURSIVE fv_lines_break(_, _, _, _)
fv_lines_break(change, fname, lines, lineno) ==
  IF lineno > Len(lines) THEN <<>>
  ELSE IF pat_search(target_of(change), lines[lineno])
       THEN <<Violation(change, fname, lineno, lines[lineno])>>
       ELSE fv_lines_break(change, fname, lines, lineno + 1)

\* the search made once on the whole file, every line of a file that holds
\* the target reported
fv_lines_file_level(change, fname, lines, lineno) ==
  IF \E n \in 1..Len(lines) : pat_search(target_of(change), lines[n])
  THEN [j \in 1..(Len(lines) + 1 - lineno) |->
          Violation(change, fname, lineno + j - 1, lines[lineno + j - 1])]
  ELSE <<>>

RECURSIVE fv_lines(_, _, _, _)
fv_lines(change, fname, lines, lineno) ==
  IF lineno > Len(lines) THEN <<>>
  ELSE (IF pat_search(target_of(change), lines[lineno])
        THEN <<Violation(change, fname, lineno, lines[lineno])>>
        ELSE <<>>)
       \o fv_lines(change, fname, lines, lineno + 1)

\* for fname, content in code_files.items(): ...
RECURSIVE fv_files(_, _, _)
fv_files(change, files, k) ==
  IF k > Len(files) THEN <<>>
  ELSE fv_lines(change, files[k].fname, splitlines(files[k].content), 1)
       \o fv_files(change, files, k + 1)

\* for change in changes: ...
RECURSIVE fv_changes(_, _, _)
fv_changes(chs, files, i) ==
  IF i > Len(chs) THEN <<>>
  ELSE (IF target_of(chs[i]) = EMPTY THEN <<>> ELSE fv_files(chs[i], files, 1))
       \o fv_changes(chs, files, i + 1)

RECURSIVE fv_changes_files_outer(_, _, _)
fv_changes_files_outer(chs, files, k) ==
  IF k > Len(files) THEN <<>>
  ELSE fv_changes(chs, <<files[k]>>, 1) \o fv_changes_files_outer(chs, files, k + 1)

find_violations_files_outer(chs, files) == fv_changes_files_outer(chs, files, 1)

find_violations(chs, files) == fv_changes(chs, files, 1)

\* -------------------------------------------------------- cross_validate
ColumnKinds == {"drop_column", "rename_column", "change_type", "not_null_no_default"}

\* the matched flag of one (change, ref) pair
cv_matched_no_lower(change, ref) ==
  \/ change.kind \in ColumnKinds /\ change.column # EMPTY /\ ref.name = change.column
  \/ change.kind = "drop_table" /\ ref.name = change.table

cv_matched(change, ref) ==
  LET ref_lower == lower(ref.name) IN
  \/ /\ change.kind \in ColumnKinds
     /\ change.column # EMPTY
     /\ ref_lower = lower(change.column)
  \/ /\ change.kind = "drop_table"
     /\ ref_lower = lower(change.table)

\* risk = "high" if change.severity == "error" else "medium"
risk_all_high(change) == "high"

risk_of(change) == IF change.severity = "error" THEN "high" ELSE "medium"

\* f"{kind}: {table}[.{column}] ({file}:{line})", kept as its parts
migration_statement(change) ==
  [kind |-> change.kind, table |-> change.table,
   dotcolumn |-> IF change.column # EMPTY THEN <<change.column>> ELSE <<>>,
   file |-> change.file, line |-> change.line]

CrossValidationResult(change, ref) ==
  [affected_file |-> ref.file_path, line_number |-> ref.line_number,
   column_name |-> change.column, table_name |-> change.table,
   migration_statement |-> migration_statement(change),
   risk_level |-> risk_of(change)]

\* for ref in code_references: ...
RECURSIVE cv_refs(_, _, _)
cv_refs(change, refs, j) ==
  IF j > Len(refs) THEN <<>>
  ELSE (IF cv_matched(change, refs[j]) THEN <<CrossValidationResult(change, refs[j])>>
        ELSE <<>>)
       \o cv_refs(change, refs, j + 1)

\* for change in migration_findings: ...
RECURSIVE cv_changes(_, _, _)
cv_changes(chs, refs, i) ==
  IF i > Len(chs) THEN <<>>
  ELSE cv_refs(chs[i], refs, 1) \o cv_changes(chs, refs, i + 1)

cross_validate(migration_findings, refs) == cv_changes(migration_findings, refs, 1)

\* ----------------------------------------------- inputs of cross-validation
\* Changes as parse_migrations builds them from the rule table: the kind's
\* severity, a table, and a column unless the rule captures none.
ParsedChangePool ==
  { SchemaChange("drop_column", W("users"), W("email"), "V1.sql", 1, "error"),
    SchemaChange("drop_table", W("orders"), EMPTY, "V2.sql", 1, "error"),
    SchemaChange("not_null_no_default", W("orders"), W("email"), "V2.sql", 2, "warning") }

\* The changes of the runs that call both cross-validators: parsed ones, and
\* changes a caller may build by hand (another kind; a column kind with the
\* dataclass's default column "").
BothChangePool ==
  { SchemaChange("rename_column", W("users"), W("email"), "V1.sql", 2, "error"),
    SchemaChange("drop_table", W("orders"), EMPTY, "V2.sql", 1, "error"),
    SchemaChange("change_type", W("users"), U("email"), "V2.sql", 3, "warning"),
    SchemaChange("add_column", W("users"), W("email"), "V3.sql", 1, "warning"),
    SchemaChange("drop_column", W("email"), EMPTY, "V3.sql", 2, "error") }

\* 'SELECT email FROM users'
Line_select == <<SQ, U("select"), SP, W("email"), SP, U("from"), SP, W("users"), SQ>>
\*  total=EMAIL      (a blank before and after)
Line_assign == <<SP, W("total"), P("="), U("email"), SP>>
\* email_id=orders.id
Line_attr == <<W("email_id"), P("="), W("orders"), P("."), W("id")>>

LinePool == {Line_select, Line_assign, Line_attr}

\* "\n".join(lines)
RECURSIVE join_lines(_)
join_lines(ls) ==
  IF ls = <<>> THEN <<>>
  ELSE IF Len(ls) = 1 THEN ls[1]
  ELSE ls[1] \o <<NL>> \o join_lines(Tail(ls))

\* Files of at most MaxLines lines, no line twice
ContentPool ==
  { join_lines(ls) : ls \in { x \in SeqUpTo(LinePool, MaxLines) :
                                \A i \in 1..Len(x), j \in 1..Len(x) : i # j => x[i] # x[j] } }

FnamePool == {Path("app", ".py"), Path("queries", ".sql")}

File(fname, content) == [fname |-> fname, content |-> content]

\* A dict of file contents in insertion order: the keys are distinct.
CorpusPool ==
  {<<>>}
  \cup {<<File(f, c)>> : f \in FnamePool, c \in ContentPool}
  \cup {<<File(fg[1], c), File(fg[2], d)>> :
          fg \in {x \in FnamePool \X FnamePool : x[1] # x[2]},
          c \in ContentPool, d \in ContentPool}

RefPool ==
  { CodeReference(Path("app", ".py"), 3, <<>>, "raw_sql", W("email")),
    CodeReference(Path("app", ".py"), 7, <<>>, "orm_attribute", U("email")),
    CodeReference(Path("models", ".py"), 2, <<>>, "table_name", T("orders")),
    CodeReference(Path("queries", ".sql"), 1, <<>>, "raw_sql", W("id")) }

\* The corpus of the runs that call both cross-validators
BothCorpus ==
  << File(Path("app", ".py"), join_lines(<<Line_select, Line_assign>>)),
     File(Path("queries", ".sql"), join_lines(<<Line_attr, Line_select>>)) >>

\* What a run that does not parse, filter or walk the disk leaves unset
NoParse == sql = <<>>
NoFilter == config = <<>> /\ filtered = <<>>
NoWalk == fs = <<>> /\ idx = 0
NoCli == args = <<>> /\ sqls = <<>> /\ output = <<>> /\ exit_code = <<>>
NoMono == added = <<>> /\ violations_after = <<>>

\* A run that calls find_violations only, over any corpus
InitFV ==
  /\ api = "find_violations"
  /\ pc = "start"
  /\ changes \in SeqUpTo(ParsedChangePool, MaxChanges)
  /\ code_files \in CorpusPool
  /\ code_references = <<>>
  /\ violations = <<>>
  /\ results = <<>>
  /\ NoParse /\ NoFilter /\ NoWalk /\ NoCli /\ NoMono

\* A run that calls find_violations and then cross_validate on the same
\* changes, over any references
InitCV ==
  /\ api = "both"
  /\ pc = "start"
  /\ changes \in SeqUpTo(BothChangePool, MaxChanges)
  /\ code_references \in SeqUpTo(RefPool, MaxRefs)
  /\ code_files = BothCorpus
  /\ violations = <<>>
  /\ results = <<>>
  /\ NoParse /\ NoFilter /\ NoWalk /\ NoCli /\ NoMono

InitXV == InitFV \/ InitCV

RunFindViolations ==
  /\ api \in {"find_violations", "both"}
  /\ pc = "start"
  /\ violations' = find_violations(changes, code_files)
  /\ pc' = "fv_done"
  /\ UNCHANGED <<mono, cli, api, sql, changes, code_files, code_references, results,
                 config, filtered, fs, idx>>

RunCrossValidate ==
  /\ api = "both"
  /\ pc = "fv_done"
  /\ results' = cross_validate(changes, code_references)
  /\ pc' = "done"
  /\ UNCHANGED <<mono, cli, api, sql, changes, code_files, code_references, violations,
                 config, filtered, fs, idx>>

NextXV == RunFindViolations \/ RunCrossValidate

SpecXV == InitXV /\ [][NextXV]_vars

DoneFV == api \in {"find_violations", "both"} /\ pc \in {"fv_done", "done"}
DoneCV == api = "both" /\ pc = "done"

\* ------------------------------------------------ claims on find_violations
LinesOfFile(k) == splitlines(code_files[k].content)

FileNo(fname) == CHOOSE k \in 1..Len(code_files) : code_files[k].fname = fname

LineOf(v) == LinesOfFile(FileNo(v.code_file))[v.code_line]

\* _SQL_KW.search(line)
SQL_KW == {"select", "insert", "update", "delete", "from", "join", "where"}

SQL_KW_search(line) ==
  \E i \in 1..Len(line) :
    IsWord(line[i]) /\ ~line[i].us /\ line[i].base \in SQL_KW

HasQuote(line) == \E i \in 1..Len(line) : line[i] \in {P("'"), P("\"")}

\* the "looks like SQL" gate of a code line
LooksLikeSql(fname, line) ==
  SQL_KW_search(line) \/ fname.ext = ".sql" \/ HasQuote(line)

\* C1: a column-bearing change produces a violation for a line only if the
\* line holds the column as a whole word and the table name appears
\* somewhere in the same file.
C1_ColumnNeedsTableInFile ==
  DoneFV =>
    \A j \in 1..Len(violations) :
      LET v == violations[j]
          ls == LinesOfFile(FileNo(v.code_file))
      IN v.kind \in ColumnKinds =>
           /\ pat_search(v.column, ls[v.code_line])
           /\ \E n \in 1..Len(ls) : pat_search(v.table, ls[n])

\* C2: no violation is produced for a line that fails the "looks like SQL"
\* gate (no SQL keyword, no SQL extension, no quote character).
C2_OnlySqlLookingLines ==
  DoneFV =>
    \A j \in 1..Len(violations) :
      LooksLikeSql(violations[j].code_file, LineOf(violations[j]))

\* The lines of every file of the corpus
CorpusLines == [k \in 1..Len(code_files) |-> splitlines(code_files[k].content)]

\* The (change, file, line) triples whose line matches the change
MatchingPairsIn(ls) ==
  { p \in UNION { UNION { { <<i, k, n>> : n \in 1..Len(ls[k]) }
                          : k \in 1..Len(code_files) }
                  : i \in 1..Len(changes) } :
      /\ target_of(changes[p[1]]) # EMPTY
      /\ pat_search(target_of(changes[p[1]]), ls[p[2]][p[3]]) }

MatchingPairs == MatchingPairsIn(CorpusLines)

FromChange(v, c) ==
  /\ v.kind = c.kind
  /\ v.table = c.table
  /\ v.column = c.column
  /\ v.severity = c.severity
  /\ v.migration_file = c.file
  /\ v.migration_line = c.line

GeneratedBy(v, p) ==
  /\ FromChange(v, changes[p[1]])
  /\ v.code_file = code_files[p[2]].fname
  /\ v.code_line = p[3]

\* C3: every violation is generated by one change and one code line and
\* carries their fields, and the matching (change, line) pairs yield one
\* violation each: none dropped, none merged, none emitted twice.
C3_OneViolationPerMatchingPair ==
  DoneFV =>
    LET mp == MatchingPairs IN
    /\ Len(violations) = Cardinality(mp)
    /\ \A j \in 1..Len(violations) :
         \E p \in mp : GeneratedBy(violations[j], p)
    /\ \A p \in mp :
         Cardinality({j \in 1..Len(violations) : GeneratedBy(violations[j], p)})
           = Cardinality({i \in 1..Len(changes) : changes[i] = changes[p[1]]})

\* a change with two matching lines in one file and a line that does not
\* match, another change's violations besides, and a snippet that strip()
\* shortened
C3_Witness ==
  /\ api = "find_violations"
  /\ DoneFV
  /\ Len(violations) >= 3
  /\ LET mp == MatchingPairs IN
     /\ \E p \in mp, q \in mp : p[1] = q[1] /\ p[2] = q[2] /\ p[3] # q[3]
     /\ \E p \in mp, q \in mp : p[1] # q[1]
     /\ \E i \in 1..Len(changes), k \in 1..Len(code_files) :
          \E n \in 1..Len(CorpusLines[k]) : <<i, k, n>> \notin mp
  /\ \E j \in 1..Len(violations) : violations[j].snippet # LineOf(violations[j])

\* Number of matching lines of change i, and of the changes before it
FvCount(mp, i) == Cardinality({p \in mp : p[1] = i})

RECURSIVE FvOffset(_, _)
FvOffset(mp, i) == IF i = 1 THEN 0 ELSE FvOffset(mp, i - 1) + FvCount(mp, i - 1)

\* (file, line) of v comes before that of w in the corpus
KeyBefore(v, w) ==
  \/ FileNo(v.code_file) < FileNo(w.code_file)
  \/ FileNo(v.code_file) = FileNo(w.code_file) /\ v.code_line < w.code_line

\* The references matching change c, in input order
MatchingRefs(c) == SelectSeq(code_references, LAMBDA r : cv_matched(c, r))

RECURSIVE CvOffset(_)
CvOffset(i) ==
  IF i = 1 THEN 0 ELSE CvOffset(i - 1) + Len(MatchingRefs(changes[i - 1]))

FromPair(r, c, ref) ==
  /\ r.table_name = c.table
  /\ r.column_name = c.column
  /\ r.migration_statement.kind = c.kind
  /\ r.migration_statement.file = c.file
  /\ r.migration_statement.line = c.line
  /\ r.affected_file = ref.file_path
  /\ r.line_number = ref.line_number

\* C4: both cross-validators are order-preserving: the output is, change by
\* change in input order, the results of that change, and within one change
\* they follow the files and lines (the references) in input order.
C4_OrderPreserving ==
  /\ DoneFV =>
       LET mp == MatchingPairs IN
       /\ Len(violations) = FvOffset(mp, Len(changes) + 1)
       /\ \A i \in 1..Len(changes) : \A t \in 1..FvCount(mp, i) :
            LET at == FvOffset(mp, i) + t IN
            /\ FromChange(violations[at], changes[i])
            /\ t > 1 => KeyBefore(violations[at - 1], violations[at])
  /\ DoneCV =>
       /\ Len(results) = CvOffset(Len(changes) + 1)
       /\ \A i \in 1..Len(changes) :
            LET m == MatchingRefs(changes[i]) IN
            \A t \in 1..Len(m) : FromPair(results[CvOffset(i) + t], changes[i], m[t])

\* two changes with results each, the first with violations in both files
\* and on two lines of one file, and with two references
C4_Witness ==
  /\ DoneCV
  /\ Len(changes) = 2
  /\ changes[1] # changes[2]
  /\ LET mp == MatchingPairs IN
     /\ \E p \in mp, q \in mp : p[1] = 1 /\ q[1] = 1 /\ p[2] # q[2]
     /\ \E p \in mp : p[1] = 2
  /\ Len(MatchingRefs(changes[1])) = 2
  /\ Len(MatchingRefs(changes[2])) >= 1
  /\ code_references[1] # code_references[2]

\* ------------------------------------------------- claims on cross_validate
\* The claim's rule: identifiers equal up to letter case under the kind's rule
EqualIgnoringCase(a, b) == lower(a) = lower(b)

RuleMatches(c, ref) ==
  \/ c.kind \in {"drop_column", "rename_column", "change_type", "not_null_no_default"}
       /\ EqualIgnoringCase(ref.name, c.column)
  \/ c.kind = "drop_table" /\ EqualIgnoringCase(ref.name, c.table)

RulePairs ==
  { p \in (1..Len(changes)) \X (1..Len(code_references)) :
      RuleMatches(changes[p[1]], code_references[p[2]]) }

\* C5: cross_validate emits a result for a (change, reference) pair exactly
\* when the identifiers are equal case-insensitively under the kind's rule,
\* one result per matching pair, none for any other pair or kind.
C5_MatchByIdentifierEquality ==
  DoneCV =>
    LET rp == RulePairs IN
    /\ Len(results) = Cardinality(rp)
    /\ \A j \in 1..Len(results) :
         \E p \in rp : FromPair(results[j], changes[p[1]], code_references[p[2]])
    /\ \A p \in rp :
         \E j \in 1..Len(results) :
           FromPair(results[j], changes[p[1]], code_references[p[2]])

\* a column change matched by a reference in another letter case, a
\* drop_table matched by the table's name, and pairs that do not match:
\* another kind with an equal column, and a different identifier
C5_Witness ==
  /\ DoneCV
  /\ Len(results) >= 1
  /\ \E p \in RulePairs :
       /\ changes[p[1]].kind \in ColumnKinds
       /\ code_references[p[2]].name # changes[p[1]].column
  /\ \E i \in 1..Len(changes), j \in 1..Len(code_references) :
       /\ changes[i].kind = "add_column"
       /\ lower(code_references[j].name) = lower(changes[i].column)
  /\ \E i \in 1..Len(changes), j \in 1..Len(code_references) :
       /\ changes[i].kind \in ColumnKinds
       /\ <<i, j>> \notin RulePairs

\* C6: every result's risk level is "high" when its change has severity
\* "error" and "medium" when it has severity "warning"; never "low".
C6_RiskFromSeverity ==
  DoneCV =>
    \A j \in 1..Len(results) :
      /\ results[j].risk_level # "low"
      /\ \E p \in RulePairs :
           /\ FromPair(results[j], changes[p[1]], code_references[p[2]])
           /\ changes[p[1]].severity = "error" => results[j].risk_level = "high"
           /\ changes[p[1]].severity = "warning" => results[j].risk_level = "medium"

\* results of an error change and of a warning change side by side
C6_Witness ==
  /\ DoneCV
  /\ \E j \in 1..Len(results) : results[j].risk_level = "high"
  /\ \E j \in 1..Len(results) : results[j].risk_level = "medium"

\* ====================================================== filter_violations
MaxViolations == 3

\* Config: the disabled rule kinds and the severity overrides (kind -> severity)
Config(rules_disabled, severity_override) ==
  [rules_disabled |-> rules_disabled, severity_override |-> severity_override]

\* One violation through the filter: dropped (<<>>), or kept with the
\* overriding severity if its kind has one
filter_one_escalate_only(v, cfg) ==
  IF v.kind \in cfg.rules_disabled THEN <<>>
  ELSE IF v.kind \in DOMAIN cfg.severity_override
          /\ cfg.severity_override[v.kind] = "error"
       THEN <<[v EXCEPT !.severity = "error"]>>
       ELSE <<v>>

filter_one(v, cfg) ==
  IF v.kind \in cfg.rules_disabled THEN <<>>
  ELSE IF v.kind \in DOMAIN cfg.severity_override
       THEN <<[v EXCEPT !.severity = cfg.severity_override[v.kind]]>>
       ELSE <<v>>

RECURSIVE filter_violations(_, _)
filter_violations(vs, cfg) ==
  IF vs = <<>> THEN <<>>
  ELSE filter_one(Head(vs), cfg) \o filter_violations(Tail(vs), cfg)

\* Violations as find_violations builds them
ViolationPool ==
  { Violation(SchemaChange("drop_column", W("users"), W("email"), "V1.sql", 1, "error"),
              Path("app", ".py"), 1, Line_select),
    Violation(SchemaChange("drop_table", W("orders"), EMPTY, "V2.sql", 1, "error"),
              Path("queries", ".sql"), 2, Line_attr),
    Violation(SchemaChange("not_null_no_default", W("orders"), W("email"), "V2.sql", 2,
                           "warning"),
              Path("app", ".py"), 5, Line_assign) }

OverridePool ==
  { <<>>,
    [k \in {"not_null_no_default"} |-> "error"],
    [k \in {"drop_table"} |-> "warning"],
    [k \in {"drop_column"} |-> "warning"],
    [k \in {"not_null_no_default", "drop_table"} |->
       IF k = "drop_table" THEN "warning" ELSE "error"] }

ConfigPool ==
  { Config(d, o) : d \in SUBSET {"drop_column", "not_null_no_default"}, o \in OverridePool }

InitFilter ==
  /\ api = "filter_violations"
  /\ pc = "start"
  /\ violations \in SeqUpTo(ViolationPool, MaxViolations)
  /\ config \in ConfigPool
  /\ filtered = <<>>
  /\ changes = <<>> /\ code_files = <<>> /\ code_references = <<>> /\ results = <<>>
  /\ NoParse /\ NoWalk /\ NoCli /\ NoMono

RunFilter ==
  /\ api = "filter_violations"
  /\ pc = "start"
  /\ filtered' = filter_violations(violations, config)
  /\ pc' = "done"
  /\ UNCHANGED <<mono, cli, api, sql, changes, code_files, violations, code_references, results,
                 config, fs, idx>>

NextFilter == RunFilter

SpecFilter == InitFilter /\ [][NextFilter]_vars

DoneFilter == api = "filter_violations" /\ pc = "done"

Survivors == SelectSeq(violations, LAMBDA v : v.kind \notin config.rules_disabled)

\* C7: filter_violations returns, in input order, exactly the violations
\* whose kind is not disabled; a survivor whose kind has a severity override
\* gets that severity (in either direction) and is otherwise unchanged; a
\* survivor without an override is passed through unchanged.
C7_FilterContract ==
  DoneFilter =>
    LET surv == Survivors IN
    /\ Len(filtered) = Len(surv)
    /\ \A j \in 1..Len(surv) :
         IF surv[j].kind \in DOMAIN config.severity_override
         THEN filtered[j] = [surv[j] EXCEPT
                               !.severity = config.severity_override[surv[j].kind]]
         ELSE filtered[j] = surv[j]

\* one violation dropped, one escalated from warning to error, one
\* de-escalated from error to warning
C7_Witness ==
  /\ DoneFilter
  /\ Len(filtered) < Len(violations)
  /\ \E j \in 1..Len(filtered), i \in 1..Len(violations) :
       /\ violations[i].severity = "warning" /\ filtered[j].severity = "error"
       /\ filtered[j] = [violations[i] EXCEPT !.severity = "error"]
  /\ \E j \in 1..Len(filtered), i \in 1..Len(violations) :
       /\ violations[i].severity = "error" /\ filtered[j].severity = "warning"
       /\ filtered[j] = [violations[i] EXCEPT !.severity = "warning"]

\* ========================================================= re patterns
\* A compiled pattern is a sequence of elements, matched against the tokens
\* of a line from a position on, with re's backtracking order.  The words
\* of the texts checked hold no keyword as a proper part, so a keyword of a
\* pattern meets a whole word or none.
Kw(w) == [t |-> "kw", w |-> {w}, sub |-> <<>>, g |-> 0]         \* WORD, re.I
KwAlt(ws) == [t |-> "kw", w |-> ws, sub |-> <<>>, g |-> 0]      \* (?:A|B), re.I
Lit(tok) == [t |-> "ch", w |-> {tok}, sub |-> <<>>, g |-> 0]    \* literal text
Ch(toks) == [t |-> "ch", w |-> toks, sub |-> <<>>, g |-> 0]     \* [...]
OptCh(toks) == [t |-> "optch", w |-> toks, sub |-> <<>>, g |-> 0]  \* [...]?
Ws1 == [t |-> "ws1", w |-> {}, sub |-> <<>>, g |-> 0]           \* \s+
Ws0 == [t |-> "ws0", w |-> {}, sub |-> <<>>, g |-> 0]           \* \s*
Cap(g) == [t |-> "cap", w |-> {}, sub |-> <<>>, g |-> g]        \* (\w+)
Word == [t |-> "word", w |-> {}, sub |-> <<>>, g |-> 0]         \* \w+
Opt(sub) == [t |-> "opt", w |-> {}, sub |-> sub, g |-> 0]       \* (?:...)?
LazyNotSemi == [t |-> "lazy", w |-> {}, sub |-> <<>>, g |-> 0]  \* [^;]*?
NoDefaultAhead == [t |-> "nla", w |-> {}, sub |-> <<>>, g |-> 0]  \* (?![^;]*?DEFAULT)
CapList(g) == [t |-> "caplist", w |-> {}, sub |-> <<>>, g |-> g]  \* ([\w\s,.*'"]+?) and the backtick

SEMI == P(";")
BQ == P("backtick")
DQ == P("\"")

IsKw(tok, ws) == IsWord(tok) /\ ~tok.us /\ tok.base \in ws

\* Number of blanks from pos on
RECURSIVE SpaceRun(_, _)
SpaceRun(line, pos) ==
  IF pos <= Len(line) /\ IsSpace(line[pos]) THEN 1 + SpaceRun(line, pos + 1) ELSE 0

\* Number of tokens other than ";" from pos on
RECURSIVE NotSemiRun(_, _)
NotSemiRun(line, pos) ==
  IF pos <= Len(line) /\ line[pos] # SEMI THEN 1 + NotSemiRun(line, pos + 1) ELSE 0

\* Number of tokens of the class [\w\s,.*'"] and the backtick from pos on
InListClass(tok) == IsWord(tok) \/ tok \in {SP, P(","), P("."), P("*"), BQ, DQ, SQ}

RECURSIVE ListRun(_, _)
ListRun(line, pos) ==
  IF pos <= Len(line) /\ InListClass(line[pos]) THEN 1 + ListRun(line, pos + 1) ELSE 0

\* (?![^;]*?DEFAULT) at pos: no DEFAULT before the next ";"
DefaultAhead(line, pos) ==
  \E k \in pos..(pos + NotSemiRun(line, pos) - 1) : IsKw(line[k], {"default"})

WithGroup(caps, g, val) ==
  [x \in DOMAIN caps \cup {g} |-> IF x = g THEN val ELSE caps[x]]

\* The first match of pat at pos, as <<[end, caps]>> (end: the position
\* after the match), or <<>> if there is none.
RECURSIVE M(_, _, _, _)
RECURSIVE TryDown(_, _, _, _, _, _)
RECURSIVE TryUp(_, _, _, _, _, _)
RECURSIVE TryList(_, _, _, _, _, _)

\* greedy: rest after k tokens, then k - 1, ... down to lo
TryDown(rest, line, pos, caps, k, lo) ==
  IF k < lo THEN <<>>
  ELSE LET r == M(rest, line, pos + k, caps) IN
       IF r # <<>> THEN r ELSE TryDown(rest, line, pos, caps, k - 1, lo)

\* lazy: rest after k tokens, then k + 1, ... up to hi
TryUp(rest, line, pos, caps, k, hi) ==
  IF k > hi THEN <<>>
  ELSE LET r == M(rest, line, pos + k, caps) IN
       IF r # <<>> THEN r ELSE TryUp(rest, line, pos, caps, k + 1, hi)

\* lazy capture of k tokens, then k + 1, ... up to hi
TryList(e, rest, line, pos, caps, k) ==
  IF k > ListRun(line, pos) THEN <<>>
  ELSE LET r == M(rest, line, pos + k,
                  WithGroup(caps, e.g, SubSeq(line, pos, pos + k - 1))) IN
       IF r # <<>> THEN r ELSE TryList(e, rest, line, pos, caps, k + 1)

M(pat, line, pos, caps) ==
  IF pat = <<>> THEN <<[end |-> pos, caps |-> caps]>>
  ELSE
    LET e == Head(pat)
        rest == Tail(pat)
        here == pos <= Len(line)
    IN CASE e.t = "kw" ->
              IF here /\ IsKw(line[pos], e.w) THEN M(rest, line, pos + 1, caps) ELSE <<>>
         [] e.t = "ch" ->
              IF here /\ line[pos] \in e.w THEN M(rest, line, pos + 1, caps) ELSE <<>>
         [] e.t = "optch" ->
              LET r == IF here /\ line[pos] \in e.w
                       THEN M(rest, line, pos + 1, caps) ELSE <<>>
              IN IF r # <<>> THEN r ELSE M(rest, line, pos, caps)
         [] e.t = "ws1" -> TryDown(rest, line, pos, caps, SpaceRun(line, pos), 1)
         [] e.t = "ws0" -> TryDown(rest, line, pos, caps, SpaceRun(line, pos), 0)
         [] e.t = "cap" ->
              IF here /\ IsWord(line[pos])
              THEN M(rest, line, pos + 1, WithGroup(caps, e.g, line[pos])) ELSE <<>>
         [] e.t = "word" ->
              IF here /\ IsWord(line[pos]) THEN M(rest, line, pos + 1, caps) ELSE <<>>
         [] e.t = "opt" ->
              LET r == M(e.sub \o rest, line, pos, caps)
              IN IF r # <<>> THEN r ELSE M(rest, line, pos, caps)
         [] e.t = "lazy" -> TryUp(rest, line, pos, caps, 0, NotSemiRun(line, pos))
         [] e.t = "nla" ->
              IF DefaultAhead(line, pos) THEN <<>> ELSE M(rest, line, pos, caps)
         [] e.t = "caplist" -> TryList(e, rest, line, pos, caps, 1)

\* pat.finditer(line): the matches from left to right, none overlapping
RECURSIVE finditer_from(_, _, _)
finditer_from(pat, line, pos) ==
  IF pos > Len(line) THEN <<>>
  ELSE LET r == M(pat, line, pos, <<>>) IN
       IF r = <<>> THEN finditer_from(pat, line, pos + 1)
       ELSE r \o finditer_from(pat, line, IF r[1].end > pos THEN r[1].end ELSE pos + 1)

finditer(pat, line) == finditer_from(pat, line, 1)

\* ====================================================== parse_migrations
Q3 == {BQ, DQ, SQ}

\* ALTER\s+TABLE\s+q?(\w+)q?\s+   (q: a quote or backtick)
AlterTable == <<Kw("alter"), Ws1, Kw("table"), Ws1, OptCh(Q3), Cap(1), OptCh(Q3), Ws1>>

RE_drop_column ==
  AlterTable \o <<Kw("drop"), Ws1, Opt(<<Kw("column"), Ws1>>), OptCh(Q3), Cap(2)>>

RE_rename_column ==
  AlterTable \o <<Kw("rename"), Ws1, Kw("column"), Ws1, OptCh(Q3), Cap(2)>>

RE_drop_table ==
  <<Kw("drop"), Ws1, Kw("table"), Ws1, Opt(<<Kw("if"), Ws1, Kw("exists"), Ws1>>),
    OptCh(Q3), Cap(1)>>

RE_not_null_no_default ==
  AlterTable \o <<Kw("add"), Ws1, Opt(<<Kw("column"), Ws1>>), OptCh(Q3), Cap(2),
                  OptCh(Q3), Ws1, Word, LazyNotSemi, Kw("not"), Ws1, Kw("null"),
                  NoDefaultAhead>>

RE_change_type ==
  AlterTable \o <<Kw("alter"), Ws1, Kw("column"), Ws1, OptCh(Q3), Cap(2), OptCh(Q3),
                  Ws1, Opt(<<Kw("set"), Ws1, Kw("data"), Ws1>>), Kw("type")>>

DDL_RULES ==
  << [kind |-> "drop_column", sev |-> "error", pat |-> RE_drop_column],
     [kind |-> "rename_column", sev |-> "error", pat |-> RE_rename_column],
     [kind |-> "drop_table", sev |-> "error", pat |-> RE_drop_table],
     [kind |-> "not_null_no_default", sev |-> "warning", pat |-> RE_not_null_no_default],
     [kind |-> "change_type", sev |-> "warning", pat |-> RE_change_type] >>

\* for m in pat.finditer(line): changes.append(SchemaChange(...))
pm_matches(rule, ms, filename, lineno) ==
  [j \in 1..Len(ms) |->
     SchemaChange(rule.kind, ms[j].caps[1],
                  IF 2 \in DOMAIN ms[j].caps THEN ms[j].caps[2] ELSE EMPTY,
                  filename, lineno, rule.sev)]

\* the rule loop stopped at the first rule that matches the line
RECURSIVE pm_rules_first_only(_, _, _, _)
pm_rules_first_only(line, filename, lineno, r) ==
  IF r > Len(DDL_RULES) THEN <<>>
  ELSE LET ms == finditer(DDL_RULES[r].pat, line) IN
       IF ms # <<>> THEN pm_matches(DDL_RULES[r], ms, filename, lineno)
       ELSE pm_rules_first_only(line, filename, lineno, r + 1)

\* for kind, sev, pat in DDL_RULES: ...
RECURSIVE pm_rules(_, _, _, _)
pm_rules(line, filename, lineno, r) ==
  IF r > Len(DDL_RULES) THEN <<>>
  ELSE pm_matches(DDL_RULES[r], finditer(DDL_RULES[r].pat, line), filename, lineno)
       \o pm_rules(line, filename, lineno, r + 1)

\* for lineno, line in enumerate(sql.splitlines(), 1): ...
RECURSIVE pm_lines(_, _, _)
pm_lines(lines, filename, lineno) ==
  IF lineno > Len(lines) THEN <<>>
  ELSE pm_rules(lines[lineno], filename, lineno, 1)
       \o pm_lines(lines, filename, lineno + 1)

parse_migrations(text, filename) == pm_lines(splitlines(text), filename, 1)

\* ----------------------------------------------- inputs of parse_migrations
MaxTail == 3

\* ALTER TABLE users ADD [COLUMN] age INT
AddColumnHead(with_column) ==
  <<U("alter"), SP, U("table"), SP, W("users"), SP, U("add"), SP>>
  \o (IF with_column THEN <<U("column"), SP>> ELSE <<>>)
  \o <<W("age"), SP, U("int")>>

\* What may follow the type:  NOT NULL,  DEFAULT 0 (in either letter case),
\* UNIQUE,  ;
TailPool ==
  { <<SP, U("not"), SP, U("null")>>,
    <<SP, U("default"), SP, W("0")>>,
    <<SP, W("default"), SP, W("0")>>,
    <<SP, U("unique")>>,
    <<SEMI>> }

RECURSIVE Flatten(_)
Flatten(ss) == IF ss = <<>> THEN <<>> ELSE Head(ss) \o Flatten(Tail(ss))

AddLinePool ==
  { AddColumnHead(c) \o Flatten(tl) : c \in BOOLEAN, tl \in SeqUpTo(TailPool, MaxTail) }

\* ALTER TABLE users DROP COLUMN email;
Line_drop_column ==
  <<U("alter"), SP, U("table"), SP, W("users"), SP, U("drop"), SP, U("column"), SP,
    W("email"), SEMI>>
\* DROP TABLE IF EXISTS sessions;
Line_drop_table ==
  <<U("drop"), SP, U("table"), SP, U("if"), SP, U("exists"), SP, W("sessions"), SEMI>>
\* ALTER TABLE "products" RENAME COLUMN price TO cost;
Line_rename ==
  <<U("alter"), SP, U("table"), SP, DQ, W("products"), DQ, SP, U("rename"), SP,
    U("column"), SP, W("price"), SP, U("to"), SP, W("cost"), SEMI>>
\* alter table users alter column age set data type bigint;
Line_change_type ==
  <<W("alter"), SP, W("table"), SP, W("users"), SP, W("alter"), SP, W("column"), SP,
    W("age"), SP, W("set"), SP, W("data"), SP, W("type"), SP, W("bigint"), SEMI>>
\* ALTER TABLE users DROP email; DROP TABLE orders
Line_two_statements ==
  <<U("alter"), SP, U("table"), SP, W("users"), SP, U("drop"), SP, W("email"), SEMI, SP,
    U("drop"), SP, U("table"), SP, W("orders")>>
\* CREATE INDEX ix ON users (email);
Line_no_rule ==
  <<U("create"), SP, U("index"), SP, W("ix"), SP, U("on"), SP, W("users"), SP, P("("),
    W("email"), P(")"), SEMI>>

OtherLinePool ==
  {Line_drop_column, Line_drop_table, Line_rename, Line_change_type,
   Line_two_statements, Line_no_rule}

\* One ADD line, one other line, or another line followed by an ADD line
SqlPool ==
  AddLinePool \cup OtherLinePool \cup {<<>>}
  \cup { join_lines(<<o, a>>) : o \in OtherLinePool, a \in AddLinePool }

MigrationFile == "V1.sql"

InitParse ==
  /\ api = "parse_migrations"
  /\ pc = "start"
  /\ sql \in SqlPool
  /\ changes = <<>>
  /\ code_files = <<>> /\ violations = <<>> /\ code_references = <<>> /\ results = <<>>
  /\ NoFilter /\ NoWalk /\ NoCli /\ NoMono

RunParse ==
  /\ api = "parse_migrations"
  /\ pc = "start"
  /\ changes' = parse_migrations(sql, MigrationFile)
  /\ pc' = "done"
  /\ UNCHANGED <<mono, cli, api, sql, code_files, violations, code_references, results,
                 config, filtered, fs, idx>>

NextParse == RunParse

SpecParse == InitParse /\ [][NextParse]_vars

DoneParse == api = "parse_migrations" /\ pc = "done"

\* ----------------------------------------------- claims on parse_migrations
\* The line is  ALTER TABLE <t> ADD [COLUMN] <c> <type> ...
IsAddColumnLine(line) ==
  /\ Len(line) >= 11
  /\ IsKw(line[1], {"alter"}) /\ IsKw(line[3], {"table"}) /\ IsKw(line[7], {"add"})

\* The position after the line's first statement (its first ";", or its end)
StatementEnd(line) == 1 + NotSemiRun(line, 1)

\* The positions of NOT NULL in the line's first statement
NotNullAt(line) ==
  { j \in 1..(Len(line) - 2) :
      /\ j < StatementEnd(line)
      /\ IsKw(line[j], {"not"}) /\ line[j + 1] = SP /\ IsKw(line[j + 2], {"null"}) }

DefaultAt(line) == { k \in 1..Len(line) : IsKw(line[k], {"default"}) }

NotNullChangesOn(n) ==
  SelectSeq(changes, LAMBDA c : c.kind = "not_null_no_default" /\ c.line = n)

\* C8: an ALTER TABLE <t> ADD [COLUMN] <c> <type> ... NOT NULL line yields no
\* not_null_no_default change when a DEFAULT follows the NOT NULL (here: in
\* the same statement), and exactly one, of severity warning, when the line
\* holds no DEFAULT.
C8_DefaultSuppressesNotNull ==
  DoneParse =>
    LET lines == splitlines(sql) IN
    \A n \in 1..Len(lines) :
      LET line == lines[n] IN
      (IsAddColumnLine(line) /\ NotNullAt(line) # {}) =>
        /\ (\E j \in NotNullAt(line), k \in DefaultAt(line) :
              j < k /\ k < StatementEnd(line))
             => Len(NotNullChangesOn(n)) = 0
        /\ DefaultAt(line) = {}
             => /\ Len(NotNullChangesOn(n)) = 1
                /\ NotNullChangesOn(n)[1].severity = "warning"

\* ============================================================ CodeScanner
SQL_KEYWORDS ==
  {"select", "insert", "update", "delete", "from", "where", "set",
   "into", "table", "column", "and", "or", "not", "null", "values",
   "join", "on", "as", "distinct", "all", "order", "by", "group",
   "having", "limit", "offset", "create", "alter", "drop", "index",
   "primary", "key", "foreign", "references", "constraint", "if",
   "exists", "cascade", "int", "integer", "varchar", "text", "boolean",
   "bigint", "serial", "timestamp", "date", "float", "double", "default",
   "true", "false", "in", "is", "like", "between", "case", "when", "then",
   "else", "end", "asc", "desc", "inner", "outer", "left", "right", "cross",
   "union", "except", "intersect", "with", "recursive", "returning", "type",
   "add", "rename", "to", "using", "unique", "check", "no", "action"}

PY_COMMON_ATTRS ==
  {"append", "extend", "items", "keys", "values", "get", "pop", "clear",
   "format", "strip", "split", "join", "replace", "lower", "upper",
   "encode", "decode", "startswith", "endswith", "find", "count", "index",
   "read", "write", "close", "open", "path", "name", "parent", "stem",
   "group", "match", "search", "finditer", "compile", "sub", "subn",
   "add", "commit", "rollback", "query", "filter", "all", "first", "one",
   "delete", "update", "execute", "fetchone", "fetchall", "fetchmany",
   "session", "metadata", "create_all", "drop_all", "begin", "flush",
   "isinstance", "type", "len", "str", "int", "float", "bool", "list",
   "dict", "set", "tuple", "print", "range", "enumerate", "zip", "map",
   "sort", "sorted", "reverse", "copy", "deepcopy",
   "dumps", "loads", "dump", "load", "result", "row"}

\* low in <frozenset>, for a lower-cased name
in_names(low, names) == ~low.us /\ low.cs = "l" /\ low.base \in names

\* _is_noise(name)
is_noise(name) ==
  LET low == lower(name) IN
  in_names(low, SQL_KEYWORDS) \/ in_names(low, PY_COMMON_ATTRS) \/ startswith_us(name)

LB == P("[")
RB == P("]")
QOpen == {BQ, DQ, SQ, LB}
QClose == {BQ, DQ, SQ, RB}
QuoteChars == {BQ, DQ, SQ, LB, RB}
TABLENAME == [us |-> TRUE, base |-> "_tablename__", cs |-> "l"]

RE_SQLA_COLUMN ==
  <<Lit(T("column")), Ws0, Lit(P("(")), Ws0, Ch({SQ, DQ}), Cap(1), Ch({SQ, DQ})>>
RE_TABLENAME ==
  <<Lit(TABLENAME), Ws0, Lit(P("=")), Ws0, Ch({SQ, DQ}), Cap(1), Ch({SQ, DQ})>>
RE_SQL_SELECT_COLS == <<Kw("select"), Ws1, CapList(1), Ws1, Kw("from")>>
RE_SQL_FROM == <<KwAlt({"from", "join"}), Ws1, OptCh(QOpen), Cap(1), OptCh(QClose)>>
RE_SQL_WHERE_COL ==
  <<KwAlt({"where", "and", "or"}), Ws1, OptCh(QOpen), Cap(1), OptCh(QClose), Ws0,
    Ch({P("="), P("<"), P(">"), P("!")})>>
RE_SQL_INSERT ==
  <<Kw("insert"), Ws1, Kw("into"), Ws1, OptCh(QOpen), Cap(1), OptCh(QClose)>>
RE_SQL_UPDATE == <<Kw("update"), Ws1, OptCh(QOpen), Cap(1), OptCh(QClose), Ws1, Kw("set")>>
RE_SQL_SET_COL ==
  <<Kw("set"), Ws1, OptCh(QOpen), Cap(1), OptCh(QClose), Ws0, Lit(P("="))>>
RE_SQL_ORDERBY ==
  <<KwAlt({"order", "group"}), Ws1, Kw("by"), Ws1, OptCh(QOpen), Cap(1), OptCh(QClose)>>
RE_ORM_ATTR == <<Word, Lit(P(".")), Cap(1)>>

\* re.search(r"""['\"].*\b(?:SELECT|INSERT|UPDATE|DELETE|FROM|JOIN|WHERE)\b""",
\*           line, re.I): a quote, and one of the words somewhere after it
quoted_sql_search(line) ==
  \E i \in 1..Len(line), j \in 1..Len(line) :
    /\ i < j
    /\ line[i] \in {SQ, DQ}
    /\ IsKw(line[j], {"select", "insert", "update", "delete", "from", "join", "where"})

\* str.split(sep): the pieces between the separators, at least one
RECURSIVE split_from(_, _, _, _)
split_from(toks, sep, i, cur) ==
  IF i > Len(toks) THEN <<cur>>
  ELSE IF toks[i] = sep THEN <<cur>> \o split_from(toks, sep, i + 1, <<>>)
  ELSE split_from(toks, sep, i + 1, Append(cur, toks[i]))

split(toks, sep) == split_from(toks, sep, 1, <<>>)

\* re.sub(r'[quote characters and brackets]', '', text)
remove_quotes(toks) == SelectSeq(toks, LAMBDA t : t \notin QuoteChars)

\* The text of a token sequence as a name: "" for none, the token for one;
\* a text of several tokens is no single word and is in neither denylist.
name_of(toks) ==
  IF toks = <<>> THEN EMPTY
  ELSE IF Len(toks) = 1 THEN toks[1]
  ELSE [us |-> startswith_us(toks[1]), base |-> "several tokens", cs |-> "T"]

\* col_tok.strip().split('.')[-1].strip(), quotes removed
col_of(col_tok) ==
  LET parts == split(strip(col_tok), P(".")) IN
  name_of(remove_quotes(strip(parts[Len(parts)])))

\* refs.append(CodeReference(file_path, lineno, stripped, ref_type, name)) for
\* each name of the sequence
refs_for(names, file_path, lineno, stripped, ref_type) ==
  [j \in 1..Len(names) |-> CodeReference(file_path, lineno, stripped, ref_type, names[j])]

\* m.group(1) of each match
group1(ms) == [j \in 1..Len(ms) |-> ms[j].caps[1]]

\* The names one SELECT list yields: for col_tok in val.split(','): ...
select_cols(val) ==
  LET toks == split(strip(val), P(","))
      cols == [j \in 1..Len(toks) |-> col_of(toks[j])]
  IN SelectSeq(cols, LAMBDA col : col # EMPTY /\ col # P("*") /\ ~is_noise(col))

RECURSIVE select_names(_)
select_names(ms) ==
  IF ms = <<>> THEN <<>> ELSE select_cols(Head(ms).caps[1]) \o select_names(Tail(ms))

\* The names a single-identifier extractor yields
single_names(ms) == SelectSeq(group1(ms), LAMBDA name : name # EMPTY /\ ~is_noise(name))

extractors ==
  << [pat |-> RE_SQL_SELECT_COLS, is_col_list |-> TRUE],
     [pat |-> RE_SQL_FROM, is_col_list |-> FALSE],
     [pat |-> RE_SQL_WHERE_COL, is_col_list |-> FALSE],
     [pat |-> RE_SQL_INSERT, is_col_list |-> FALSE],
     [pat |-> RE_SQL_UPDATE, is_col_list |-> FALSE],
     [pat |-> RE_SQL_SET_COL, is_col_list |-> FALSE],
     [pat |-> RE_SQL_ORDERBY, is_col_list |-> FALSE] >>

\* _extract_sql_refs, from extractor e on
RECURSIVE extract_from(_, _, _, _, _)
extract_from(file_path, lineno, stripped, raw_line, e) ==
  IF e > Len(extractors) THEN <<>>
  ELSE LET ms == finditer(extractors[e].pat, raw_line)
           names == IF extractors[e].is_col_list THEN select_names(ms)
                    ELSE single_names(ms)
       IN refs_for(names, file_path, lineno, stripped, "raw_sql")
          \o extract_from(file_path, lineno, stripped, raw_line, e + 1)

extract_sql_refs(file_path, lineno, stripped, raw_line) ==
  extract_from(file_path, lineno, stripped, raw_line, 1)

\* pass 4: ORM attribute access
orm_refs(file_path, lineno, stripped, line) ==
  refs_for(SelectSeq(group1(finditer(RE_ORM_ATTR, line)), LAMBDA attr : ~is_noise(attr)),
           file_path, lineno, stripped, "orm_attribute")

\* file_path.endswith('.sql')
is_sql_path(file_path) == file_path.ext = ".sql"

\* The body of scan_file's loop for one line
scan_line(file_path, lineno, line) ==
  LET stripped == strip(line)
      is_sql_file == is_sql_path(file_path)
      line_has_sql == is_sql_file \/ quoted_sql_search(line)
  IN refs_for(group1(finditer(RE_SQLA_COLUMN, line)), file_path, lineno, stripped,
              "sqlalchemy_column")
     \o refs_for(group1(finditer(RE_TABLENAME, line)), file_path, lineno, stripped,
                 "table_name")
     \o (IF line_has_sql THEN extract_sql_refs(file_path, lineno, stripped, line)
         ELSE <<>>)
     \o (IF ~is_sql_file THEN orm_refs(file_path, lineno, stripped, line) ELSE <<>>)

RECURSIVE scan_lines(_, _, _)
scan_lines(file_path, lines, lineno) ==
  IF lineno > Len(lines) THEN <<>>
  ELSE scan_line(file_path, lineno, lines[lineno])
       \o scan_lines(file_path, lines, lineno + 1)

scan_file(file_path, content) == scan_lines(file_path, splitlines(content), 1)

\* ------------------------------------------------------ inputs of scan_file
\* The identifiers the scanned lines are built from: an ordinary word, a
\* common attribute name in title case, a SQL keyword in upper case, a word
\* with a leading underscore, a table name.
ScanWordPool == {W("email"), T("name"), U("select"), UW("secret"), W("users")}

\*   a = Column('b')
Line_column(a, b) ==
  <<SP, SP, a, SP, P("="), SP, T("column"), P("("), SQ, b, SQ, P(")")>>
\*   __tablename__ = "a"
Line_tablename(a, b) ==
  <<SP, SP, TABLENAME, SP, P("="), SP, DQ, a, DQ>>
\* q = 'SELECT a, t.b, * FROM users WHERE a = 1'
Line_query(a, b) ==
  <<W("q"), SP, P("="), SP, SQ, U("select"), SP, a, P(","), SP, W("t"), P("."), b,
    P(","), SP, P("*"), SP, U("from"), SP, W("users"), SP, U("where"), SP, a, SP,
    P("="), SP, W("1"), SQ>>
\*   self.a.b = row.b
Line_orm(a, b) ==
  <<SP, SP, W("self"), P("."), a, P("."), b, SP, P("="), SP, W("row"), P("."), b>>
\* UPDATE [a] SET b = 1 ORDER BY b
Line_update(a, b) ==
  <<U("update"), SP, LB, a, RB, SP, U("set"), SP, b, SP, P("="), SP, W("1"), SP,
    U("order"), SP, U("by"), SP, b>>
\* x = "insert into a select b from users join a group by b"
Line_insert(a, b) ==
  <<W("x"), SP, P("="), SP, DQ, W("insert"), SP, W("into"), SP, a, SP, W("select"), SP,
    b, SP, W("from"), SP, W("users"), SP, W("join"), SP, a, SP, W("group"), SP,
    W("by"), SP, b, DQ>>

ScanLinePool ==
  UNION { {Line_column(a, b), Line_tablename(a, b), Line_query(a, b), Line_orm(a, b),
           Line_update(a, b), Line_insert(a, b)} : a \in ScanWordPool, b \in ScanWordPool }

\* A line alone, or as the second line after an empty one
ScanContentPool == ScanLinePool \cup { <<NL>> \o l : l \in ScanLinePool }

InitScan ==
  /\ api = "scan_file"
  /\ pc = "start"
  /\ \E fname \in FnamePool, content \in ScanContentPool :
       code_files = <<File(fname, content)>>
  /\ code_references = <<>>
  /\ changes = <<>> /\ violations = <<>> /\ results = <<>>
  /\ NoParse /\ NoFilter /\ NoWalk /\ NoCli /\ NoMono

RunScan ==
  /\ api = "scan_file"
  /\ pc = "start"
  /\ code_references' = scan_file(code_files[1].fname, code_files[1].content)
  /\ pc' = "done"
  /\ UNCHANGED <<mono, cli, api, sql, changes, code_files, violations, results, config, filtered,
                 fs, idx>>

NextScan == RunScan

SpecScan == InitScan /\ [][NextScan]_vars

DoneScan == api = "scan_file" /\ pc = "done"

\* ----------------------------------------------------- claims on scan_file
\* A name the noise filter rejects, as the specification states it: in the
\* SQL-keyword or common-attribute denylist whatever its letter case, or
\* beginning with an underscore.
Denylisted(name) ==
  \/ name.cs # "p" /\ ~name.us /\ name.base \in SQL_KEYWORDS \cup PY_COMMON_ATTRS
  \/ name.cs # "p" /\ name.us

\* C9: every CodeReference scan_file returns, whatever pass produced it
\* (sqlalchemy_column, table_name, raw_sql, orm_attribute), has a name that
\* passed the noise filter.
C9_EveryReferencePassedNoiseFilter ==
  DoneScan =>
    \A j \in 1..Len(code_references) : ~Denylisted(code_references[j].name)

\* ==================================================== collect and scan_all
MaxFiles == 3

CODE_EXTS == {".py", ".sql", ".go", ".java", ".ts", ".js", ".rb", ".kt", ".rs"}

\* A file a walk meets: its path, its content, and whether opening and
\* reading it succeeds (otherwise the read raises OSError).
DiskFile(fname, content, readable) ==
  [fname |-> fname, content |-> content, readable |-> readable]

\* A glob pattern is taken as the set of paths it matches:
\* fnmatch.fnmatch(str(f), pat) or fnmatch.fnmatch(f.name, pat)
fnmatch(f, pat) == f \in pat

\* any(fnmatch(...) for pat in exclude_patterns), for a non-empty list
excluded(f, exclude_patterns) == \E pat \in exclude_patterns : fnmatch(f, pat)

\* files[str(f)] = text: a dict keeps the first insertion's place
dict_set(files, fname, content) ==
  IF \E i \in 1..Len(files) : files[i].fname = fname
  THEN [i \in 1..Len(files) |->
          IF files[i].fname = fname THEN File(fname, content) ELSE files[i]]
  ELSE Append(files, File(fname, content))

\* One round of collect's loop over the files met: a file that is not of the
\* wanted extensions or is excluded is passed over; the next one is read, and
\* a read that fails raises out of collect (no try around f.read_text).
CollectStep ==
  /\ api = "collect"
  /\ pc = "walk"
  /\ idx < Len(fs)
  /\ LET f == fs[idx + 1] IN
     IF f.fname.ext \notin CODE_EXTS \/ excluded(f.fname, config.exclude_patterns)
     THEN /\ idx' = idx + 1
          /\ UNCHANGED <<pc, code_files>>
     ELSE IF f.readable
     THEN /\ code_files' = dict_set(code_files, f.fname, f.content)
          /\ idx' = idx + 1
          /\ UNCHANGED pc
     ELSE /\ pc' = "raised"
          /\ UNCHANGED <<idx, code_files>>
  /\ UNCHANGED <<mono, cli, api, sql, changes, violations, code_references, results, config,
                 filtered, fs>>

\* return files
CollectReturn ==
  /\ api = "collect"
  /\ pc = "walk"
  /\ idx = Len(fs)
  /\ pc' = "returned"
  /\ UNCHANGED <<mono, cli, api, sql, changes, code_files, violations, code_references, results,
                 config, filtered, fs, idx>>

\* _read_and_scan(fpath): the file's references, or [] when the read fails
read_and_scan(f) == IF f.readable THEN scan_file(f.fname, f.content) ELSE <<>>

\* One round of scan_all's loop over the files met
ScanAllStep ==
  /\ api = "scan_all"
  /\ pc = "walk"
  /\ idx < Len(fs)
  /\ LET f == fs[idx + 1] IN
     code_references' = IF f.fname.ext \in {".py", ".sql"}
                        THEN code_references \o read_and_scan(f)
                        ELSE code_references
  /\ idx' = idx + 1
  /\ UNCHANGED <<mono, cli, api, pc, sql, changes, code_files, violations, results, config,
                 filtered, fs>>

\* return all_refs
ScanAllReturn ==
  /\ api = "scan_all"
  /\ pc = "walk"
  /\ idx = Len(fs)
  /\ pc' = "returned"
  /\ UNCHANGED <<mono, cli, api, sql, changes, code_files, violations, code_references, results,
                 config, filtered, fs, idx>>

\* ------------------------------------------------------- inputs of a walk
\* What each file of the walked tree holds
ContentOf(fname) ==
  CASE fname = Path("app", ".py") -> Line_column(W("email"), W("email"))
    [] fname = Path("queries", ".sql") -> Line_update(W("users"), W("email"))
    [] fname = Path("app_test", ".py") -> Line_orm(W("users"), W("email"))
    [] OTHER -> <<W("email")>>

WalkNamePool ==
  {Path("app", ".py"), Path("queries", ".sql"), Path("app_test", ".py"),
   Path("notes", ".txt")}

DiskFilePool ==
  { DiskFile(n, ContentOf(n), r) : n \in WalkNamePool, r \in BOOLEAN }

\* The files met, each path once, at most MaxFiles of them
DiskPool ==
  { d \in SeqUpTo(DiskFilePool, MaxFiles) :
      \A i \in 1..Len(d), j \in 1..Len(d) : i # j => d[i].fname # d[j].fname }

\* exclude_patterns: none, or ["*_test.py"]
Glob_test == {Path("app_test", ".py")}
ExcludePool == { {}, {Glob_test} }

InitIO ==
  /\ api \in {"collect", "scan_all"}
  /\ pc = "walk"
  /\ fs \in DiskPool
  /\ idx = 0
  /\ config \in { [exclude_patterns |-> e] :
                    e \in IF api = "collect" THEN ExcludePool ELSE { {} } }
  /\ filtered = <<>>
  /\ code_files = <<>> /\ code_references = <<>>
  /\ changes = <<>> /\ violations = <<>> /\ results = <<>>
  /\ NoParse /\ NoCli /\ NoMono

NextIO == CollectStep \/ CollectReturn \/ ScanAllStep \/ ScanAllReturn

SpecIO == InitIO /\ [][NextIO]_vars

\* ------------------------------------------------------- claims on a walk
\* The files collect is asked for: of a wanted extension, not excluded
Wanted(f) ==
  f.fname.ext \in CODE_EXTS /\ ~excluded(f.fname, config.exclude_patterns)

\* The files scan_all is asked for
Scanned(f) == f.fname.ext \in {".py", ".sql"}

RECURSIVE RefsOfReadable(_)
RefsOfReadable(files) ==
  IF files = <<>> THEN <<>>
  ELSE (IF Scanned(Head(files)) /\ Head(files).readable
        THEN scan_file(Head(files).fname, Head(files).content) ELSE <<>>)
       \o RefsOfReadable(Tail(files))

\* C10: a read failure on one file is caught, in collect and in scan_all
\* alike: the run is never aborted, the file that cannot be read contributes
\* nothing, and every other file asked for contributes its content (collect)
\* or its references (scan_all).
C10_ReadFailureIsCaught ==
  /\ pc # "raised"
  /\ (api = "collect" /\ pc = "returned") =>
       LET asked == SelectSeq(fs, LAMBDA f : Wanted(f) /\ f.readable) IN
       code_files = [i \in 1..Len(asked) |-> File(asked[i].fname, asked[i].content)]
  /\ (api = "scan_all" /\ pc = "returned") =>
       code_references = RefsOfReadable(fs)

\* ==================================================================== main
\* collect(paths, exts, exclude_patterns) over the files the walk meets, as
\* a function: the dict built, or raised when a read failed (CollectStep is
\* its loop body, with exts = CODE_EXTS).
RECURSIVE collect_from(_, _, _, _, _)
collect_from(files, exts, exclude_patterns, i, acc) ==
  IF i > Len(files) THEN [raised |-> FALSE, files |-> acc]
  ELSE LET f == files[i] IN
       IF f.fname.ext \notin exts \/ excluded(f.fname, exclude_patterns)
       THEN collect_from(files, exts, exclude_patterns, i + 1, acc)
       ELSE IF f.readable
       THEN collect_from(files, exts, exclude_patterns, i + 1,
                         dict_set(acc, f.fname, f.content))
       ELSE [raised |-> TRUE, files |-> <<>>]

collect(files, exts, exclude_patterns) == collect_from(files, exts, exclude_patterns, 1, <<>>)

\* Config with its exclusion globs
ConfigOf(rules_disabled, severity_override, exclude_patterns) ==
  [rules_disabled |-> rules_disabled, severity_override |-> severity_override,
   exclude_patterns |-> exclude_patterns]

\* for fname, content in sqls.items(): changes.extend(parse_migrations(content, fname))
RECURSIVE parse_all(_, _)
parse_all(files, i) ==
  IF i > Len(files) THEN <<>>
  ELSE parse_migrations(files[i].content, files[i].fname) \o parse_all(files, i + 1)

\* to_json: json.dumps([asdict(v) for v in violations], indent=2), as the
\* list of objects the text parses back to
to_json(vs) ==
  [j \in 1..Len(vs) |->
     [kind |-> vs[j].kind, table |-> vs[j].table, column |-> vs[j].column,
      migration_file |-> vs[j].migration_file, migration_line |-> vs[j].migration_line,
      code_file |-> vs[j].code_file, code_line |-> vs[j].code_line,
      snippet |-> vs[j].snippet, severity |-> vs[j].severity]]

\* One result of to_sarif; a string built from parts is the sequence of its
\* parts.
sarif_result(v) ==
  [ruleId |-> <<v.kind>>,
   level |-> IF v.severity = "error" THEN "error" ELSE "warning",
   message |-> [text |-> <<v.kind, ": ", v.table, ".", v.column, " referenced in ",
                           v.code_file, ":", v.code_line>>],
   locations |-> << [physicalLocation |->
                       [artifactLocation |-> [uri |-> v.code_file],
                        region |-> [startLine |-> v.code_line]]] >>]

to_sarif(vs) ==
  [schema |-> "sarif-schema-2.1.0.json",
   version |-> "2.1.0",
   runs |-> << [tool |-> [driver |-> [name |-> "SafeAlter", version |-> "0.1.0"]],
                results |-> [j \in 1..Len(vs) |-> sarif_result(vs[j])]] >>]

\* sum(1 for v in violations if v.severity == sev)
count_severity(vs, sev) == Len(SelectSeq(vs, LAMBDA v : v.severity = sev))

\* The text report: one block per violation, then the totals
to_text(vs) ==
  [blocks |-> [j \in 1..Len(vs) |->
                 [icon |-> IF vs[j].severity = "error" THEN "cross" ELSE "warning sign",
                  kind |-> vs[j].kind,
                  loc |-> IF vs[j].column # EMPTY THEN <<vs[j].table, ".", vs[j].column>>
                          ELSE <<vs[j].table>>,
                  migration |-> <<vs[j].migration_file, vs[j].migration_line>>,
                  code |-> <<vs[j].code_file, vs[j].code_line>>,
                  snippet |-> strip(vs[j].snippet)]],
   errs |-> count_severity(vs, "error"),
   warns |-> count_severity(vs, "warning")]

\* the exit decision with the flag taken as always set
exit_status_flag_ignored(vs, fail_on_warning) ==
  IF \E j \in 1..Len(vs) : vs[j].severity \in {"error", "warning"} THEN 1 ELSE 0

\* has_errors or (args.fail_on_warning and has_warnings): sys.exit(1);
\* otherwise main returns and the process ends with status 0
exit_status(vs, fail_on_warning) ==
  LET has_errors == \E j \in 1..Len(vs) : vs[j].severity = "error"
      has_warnings == \E j \in 1..Len(vs) : vs[j].severity = "warning"
  IN IF has_errors \/ (fail_on_warning /\ has_warnings) THEN 1 ELSE 0

\* --------------------------------------------------------- inputs of main
\* ALTER TABLE users ADD COLUMN age INT NOT NULL
Line_add_not_null == AddColumnHead(TRUE) \o <<SP, U("not"), SP, U("null")>>
\* age = 1
Line_age == <<W("age"), SP, P("="), SP, W("1")>>

MigrationTextPool ==
  { Line_drop_column, Line_add_not_null, Line_no_rule,
    join_lines(<<Line_drop_column, Line_add_not_null>>) }

\* -m: nothing, one migration file (one of them unreadable), or a file of
\* another extension before it
MigrationTreePool ==
  { <<>> }
  \cup { <<DiskFile(Path("V1", ".sql"), t, TRUE)>> : t \in MigrationTextPool }
  \cup { <<DiskFile(Path("V1", ".sql"), Line_drop_column, FALSE)>>,
         <<DiskFile(Path("notes", ".txt"), Line_drop_column, TRUE),
           DiskFile(Path("V1", ".sql"), Line_add_not_null, TRUE)>> }

CodeTextPool ==
  { Line_select, Line_age, Line_attr, join_lines(<<Line_age, Line_select>>) }

\* -c: nothing, one code file (one of them unreadable), or a test file
\* before it
CodeTreePool ==
  { <<>> }
  \cup { <<DiskFile(Path("app", ".py"), t, TRUE)>> : t \in CodeTextPool }
  \cup { <<DiskFile(Path("app", ".py"), Line_select, FALSE)>>,
         <<DiskFile(Path("app_test", ".py"), Line_select, TRUE),
           DiskFile(Path("app", ".py"), Line_age, TRUE)>> }

MainConfigPool ==
  { ConfigOf({}, <<>>, {}),
    ConfigOf({}, <<>>, {Glob_test}),
    ConfigOf({"drop_column"}, <<>>, {}),
    ConfigOf({"not_null_no_default"}, <<>>, {}),
    ConfigOf({}, [k \in {"not_null_no_default"} |-> "error"], {}),
    ConfigOf({}, [k \in {"drop_column"} |-> "warning"], {}) }

ArgsPool ==
  { [fail_on_warning |-> w, format |-> f] : w \in BOOLEAN, f \in {"text", "json", "sarif"} }

InitMain ==
  /\ api = "main"
  /\ pc = "start"
  /\ args \in ArgsPool
  /\ config \in MainConfigPool
  /\ \E ms \in MigrationTreePool, cs \in CodeTreePool :
       fs = [migrations |-> ms, code |-> cs]
  /\ idx = 0
  /\ sql = <<>> /\ sqls = <<>> /\ code_files = <<>>
  /\ changes = <<>> /\ violations = <<>> /\ filtered = <<>>
  /\ code_references = <<>> /\ results = <<>>
  /\ output = <<>> /\ exit_code = <<>>
  /\ NoMono

\* sqls = collect(args.migrations, {".sql"}, config.exclude_patterns)
\* codes = collect(args.code, CODE_EXTS, config.exclude_patterns)
\* An OSError leaving collect is caught nowhere: the interpreter prints the
\* traceback and ends with status 1.
MainCollect ==
  /\ api = "main"
  /\ pc = "start"
  /\ LET s == collect(fs.migrations, {".sql"}, config.exclude_patterns)
         c == collect(fs.code, CODE_EXTS, config.exclude_patterns)
     IN IF s.raised \/ c.raised
        THEN /\ pc' = "raised"
             /\ exit_code' = <<1>>
             /\ UNCHANGED <<sqls, code_files>>
        ELSE /\ pc' = "collected"
             /\ sqls' = s.files
             /\ code_files' = c.files
             /\ UNCHANGED exit_code
  /\ UNCHANGED <<mono, api, sql, changes, violations, code_references, results, config,
                 filtered, fs, idx, args, output>>

MainParse ==
  /\ api = "main"
  /\ pc = "collected"
  /\ changes' = parse_all(sqls, 1)
  /\ pc' = "parsed"
  /\ UNCHANGED <<mono, cli, api, sql, code_files, violations, code_references, results,
                 config, filtered, fs, idx>>

MainFind ==
  /\ api = "main"
  /\ pc = "parsed"
  /\ violations' = find_violations(changes, code_files)
  /\ pc' = "found"
  /\ UNCHANGED <<mono, cli, api, sql, changes, code_files, code_references, results,
                 config, filtered, fs, idx>>

\* violations = filter_violations(violations, config)
MainFilter ==
  /\ api = "main"
  /\ pc = "found"
  /\ filtered' = filter_violations(violations, config)
  /\ pc' = "filtered"
  /\ UNCHANGED <<mono, cli, api, sql, changes, code_files, violations, code_references,
                 results, config, fs, idx>>

MainOutput ==
  /\ api = "main"
  /\ pc = "filtered"
  /\ output' = CASE args.format = "json" -> to_json(filtered)
                 [] args.format = "sarif" -> to_sarif(filtered)
                 [] OTHER -> to_text(filtered)
  /\ pc' = "printed"
  /\ UNCHANGED <<mono, api, sql, changes, code_files, violations, code_references, results,
                 config, filtered, fs, idx, args, sqls, exit_code>>

MainExit ==
  /\ api = "main"
  /\ pc = "printed"
  /\ exit_code' = <<exit_status(filtered, args.fail_on_warning)>>
  /\ pc' = "exited"
  /\ UNCHANGED <<mono, api, sql, changes, code_files, violations, code_references, results,
                 config, filtered, fs, idx, args, sqls, output>>

NextMain ==
  MainCollect \/ MainParse \/ MainFind \/ MainFilter \/ MainOutput \/ MainExit

SpecMain == InitMain /\ [][NextMain]_vars

\* ------------------------------------------------------------ claims on main
HasSeverity(vs, sev) == \E j \in 1..Len(vs) : vs[j].severity = sev

\* C11: a completed run exits with 1 exactly when the findings left after
\* filtering hold an error, or the warnings-fail flag is set and they hold a
\* warning; every other completed run exits with 0.
C11_ExitCode ==
  pc = "exited" =>
    /\ exit_code \in {<<0>>, <<1>>}
    /\ exit_code = <<1>> <=>
         \/ HasSeverity(filtered, "error")
         \/ args.fail_on_warning /\ HasSeverity(filtered, "warning")

\* a run that found an error, had it turned into a warning by the
\* configuration, and exits with 0 since warnings do not fail it
C11_Witness ==
  /\ pc = "exited"
  /\ exit_code = <<0>>
  /\ HasSeverity(violations, "error")
  /\ filtered # <<>>
  /\ ~HasSeverity(filtered, "error")
  /\ ~args.fail_on_warning

\* ------------------------------------------------------ the output encoders
InitEncode ==
  /\ api \in {"to_sarif", "to_json"}
  /\ pc = "start"
  /\ violations \in SeqUpTo(ViolationPool, MaxViolations)
  /\ changes = <<>> /\ code_files = <<>> /\ code_references = <<>> /\ results = <<>>
  /\ NoParse /\ NoFilter /\ NoWalk /\ NoCli /\ NoMono

RunSarif ==
  /\ api = "to_sarif"
  /\ pc = "start"
  /\ output' = to_sarif(violations)
  /\ pc' = "done"
  /\ UNCHANGED <<mono, api, sql, changes, code_files, violations, code_references, results,
                 config, filtered, fs, idx, args, sqls, exit_code>>

RunJson ==
  /\ api = "to_json"
  /\ pc = "start"
  /\ output' = to_json(violations)
  /\ pc' = "done"
  /\ UNCHANGED <<mono, api, sql, changes, code_files, violations, code_references, results,
                 config, filtered, fs, idx, args, sqls, exit_code>>

NextEncode == RunSarif \/ RunJson

SpecEncode == InitEncode /\ [][NextEncode]_vars

DoneSarif == api = "to_sarif" /\ pc = "done"

\* C12: to_sarif returns a document of version "2.1.0" whose single run has
\* one result per violation, in order; a result's ruleId is "safealter/"
\* followed by the violation's kind, its level the violation's severity, its
\* location the violation's code file and code line.
C12_SarifContract ==
  DoneSarif =>
    /\ output.version = "2.1.0"
    /\ Len(output.runs) = 1
    /\ Len(output.runs[1].results) = Len(violations)
    /\ \A j \in 1..Len(violations) :
         LET r == output.runs[1].results[j]
             v == violations[j]
         IN /\ r.ruleId = <<"safealter/", v.kind>>
            /\ r.level = v.severity
            /\ Len(r.locations) = 1
            /\ r.locations[1].physicalLocation.artifactLocation.uri = v.code_file
            /\ r.locations[1].physicalLocation.region.startLine = v.code_line

\* ------------------------------------ claims on parse_migrations, continued
\* The rule table's order, as the specification gives it
RuleOrder ==
  <<"drop_column", "rename_column", "drop_table", "not_null_no_default", "change_type">>

RuleNo(kind) == CHOOSE r \in 1..Len(RuleOrder) : RuleOrder[r] = kind

\* The changes of one kind found on line n
ChangesOn(n, kind) == SelectSeq(changes, LAMBDA c : c.line = n /\ c.kind = kind)

\* C13: parse_migrations tests every rule of the table on every line by
\* itself: the changes of a kind on a line are that rule's matches on that
\* line whatever else matched there, each carrying the line's 1-based
\* number; the changes come ordered by line and, within a line, by the rule
\* table's order; a line no rule matches contributes none.
C13_RulesIndependentAndOrdered ==
  DoneParse =>
    LET lines == splitlines(sql) IN
    /\ Len(DDL_RULES) = Len(RuleOrder)
    /\ \A c \in {changes[i] : i \in 1..Len(changes)} :
         c.line \in 1..Len(lines) /\ \E r \in 1..Len(RuleOrder) : RuleOrder[r] = c.kind
    /\ \A n \in 1..Len(lines), r \in 1..Len(RuleOrder) :
         /\ DDL_RULES[r].kind = RuleOrder[r]
         /\ ChangesOn(n, RuleOrder[r])
              = pm_matches(DDL_RULES[r], finditer(DDL_RULES[r].pat, lines[n]),
                           MigrationFile, n)
    /\ \A i \in 1..Len(changes), j \in 1..Len(changes) :
         i < j =>
           \/ changes[i].line < changes[j].line
           \/ /\ changes[i].line = changes[j].line
              /\ RuleNo(changes[i].kind) <= RuleNo(changes[j].kind)

\* two rules fired on the first line, and a later line yields a change too
C13_Witness ==
  /\ DoneParse
  /\ \E i \in 1..Len(changes), j \in 1..Len(changes), k \in 1..Len(changes) :
       /\ changes[i].line = 1 /\ changes[j].line = 1
       /\ changes[i].kind = "drop_column" /\ changes[j].kind = "drop_table"
       /\ changes[k].line = 2

\* ------------------------------- find_violations on a corpus and on it grown
\* x = 1
Line_other == <<W("x"), SP, P("="), SP, W("1")>>
\* USERS
Line_table == <<U("users")>>

AddedLinePool == {Line_other, Line_attr, Line_assign, Line_table}

NewFile == Path("extra", ".py")

\* The names a change carries, in lower case
NamesOf(chs) ==
  { lower(chs[i].table) : i \in 1..Len(chs) }
  \cup { lower(chs[i].column) : i \in {k \in 1..Len(chs) : chs[k].column # EMPTY} }

\* The line holds neither the column nor the table name of any change, in
\* whatever letter case
Unrelated(line, chs) ==
  \A i \in 1..Len(line) : IsWord(line[i]) => lower(line[i]) \notin NamesOf(chs)

\* ls with line put after its first pos lines
insert_at(ls, pos, line) ==
  SubSeq(ls, 1, pos) \o <<line>> \o SubSeq(ls, pos + 1, Len(ls))

\* The corpus with the line added: into the named file after its first pos
\* lines, or as a new file of that name
Grown(files, a) ==
  IF \E k \in 1..Len(files) : files[k].fname = a.fname
  THEN [k \in 1..Len(files) |->
          IF files[k].fname = a.fname
          THEN File(a.fname, join_lines(insert_at(splitlines(files[k].content), a.pos, a.line)))
          ELSE files[k]]
  ELSE Append(files, File(a.fname, a.line))

\* The additions the claim covers, for these changes and files
Additions(chs, files) ==
  { [fname |-> NewFile, pos |-> 0, line |-> l] :
      l \in {x \in AddedLinePool : Unrelated(x, chs)} }
  \cup UNION { { [fname |-> files[k].fname, pos |-> q, line |-> l] :
                   q \in 0..Len(splitlines(files[k].content)),
                   l \in {x \in AddedLinePool : Unrelated(x, chs)} } :
               k \in 1..Len(files) }

\* No file, one file, or the two files of BothCorpus
MonoCorpusPool == {c \in CorpusPool : Len(c) <= 1} \cup {BothCorpus}

InitMono ==
  /\ api = "find_violations twice"
  /\ pc = "start"
  /\ changes \in SeqUpTo(ParsedChangePool, MaxChanges)
  /\ code_files \in MonoCorpusPool
  /\ added \in Additions(changes, code_files)
  /\ violations = <<>> /\ violations_after = <<>>
  /\ code_references = <<>> /\ results = <<>>
  /\ NoParse /\ NoFilter /\ NoWalk /\ NoCli

MonoBefore ==
  /\ api = "find_violations twice"
  /\ pc = "start"
  /\ violations' = find_violations(changes, code_files)
  /\ pc' = "before"
  /\ UNCHANGED <<mono, cli, api, sql, changes, code_files, code_references, results,
                 config, filtered, fs, idx>>

MonoAfter ==
  /\ api = "find_violations twice"
  /\ pc = "before"
  /\ violations_after' = find_violations(changes, Grown(code_files, added))
  /\ pc' = "after"
  /\ UNCHANGED <<added, cli, api, sql, changes, code_files, violations, code_references,
                 results, config, filtered, fs, idx>>

NextMono == MonoBefore \/ MonoAfter

SpecMono == InitMono /\ [][NextMono]_vars

DoneMono == api = "find_violations twice" /\ pc = "after"

\* The violations of vs that change c produced
CountFor(vs, c) ==
  Len(SelectSeq(vs, LAMBDA v : /\ v.kind = c.kind /\ v.table = c.table
                                /\ v.column = c.column /\ v.severity = c.severity
                                /\ v.migration_file = c.file
                                /\ v.migration_line = c.line))

\* A violation as it reads once the line is added: one on a line below the
\* added line, in the same file, has moved down with its line
AfterAdding(v) ==
  IF v.code_file = added.fname /\ v.code_line > added.pos
  THEN [v EXCEPT !.code_line = v.code_line + 1]
  ELSE v

\* C14: adding a line that holds neither the column nor the table name of any
\* change, to an existing file or as a new file, leaves the number of
\* violations find_violations produces for each change unchanged and leaves
\* every violation produced before present: the violations after are those
\* before, in the same order, each on its own line (the very same records
\* when the line is added at the end of a file or as a new file).
C14_MonotonicInCorpus ==
  DoneMono =>
    /\ \A i \in 1..Len(changes) :
         CountFor(violations_after, changes[i]) = CountFor(violations, changes[i])
    /\ violations_after = [j \in 1..Len(violations) |-> AfterAdding(violations[j])]
    /\ (\A j \in 1..Len(violations) : AfterAdding(violations[j]) = violations[j])
         => violations_after = violations

\* a line added at the end of a file that holds a violation, which is still
\* there afterwards
C14_Witness ==
  /\ DoneMono
  /\ \E j \in 1..Len(violations) :
       /\ violations[j].code_file = added.fname
       /\ violations[j].code_line <= added.pos
       /\ \E k \in 1..Len(violations_after) : violations_after[k] = violations[j]

====
